---- MODULE Spec2Model ----
(***************************************************************************)
(* Model of src/app/app/dialog/[id]/backup/[cid]/page.tsx: the BackupDialog *)
(* component (transcript filter, grouping pass, media URLs, HTML export)    *)
(* and its scroll-driven pagination effect.                                 *)
(*                                                                          *)
(* Strings of the program are sequences of one-character strings, so that   *)
(* escapeHtml and the filename rule are computed, not assumed.              *)
(***************************************************************************)
EXTENDS Integers, Sequences, FiniteSets, TLC

VARIABLES
    \* ---- props of BackupDialog (page.tsx:26-35) ----
    userId,            \* viewer identity
    dialog,            \* [name]
    messages,          \* (MessageData | ServiceMessageData)[], as last rendered
    mediaMap,          \* set of content keys that have bytes
    participants,      \* id -> [name, thumb]
    period,            \* <<from, to>>
    \* ---- one render pass of BackupDialog ----
    renderCount,       \* number of render passes so far
    crashed,           \* a render pass threw
    filteredMessages,  \* useMemo result (page.tsx:159)
    rows,              \* what filteredMessages.map returned (page.tsx:309)
    lastRenderedDate,  \* page.tsx:156, value at the end of the pass
    lastSenderId,      \* page.tsx:157, value at the end of the pass
    objectUrls,        \* blob URLs created by URL.createObjectURL, not revoked
    \* ---- handleDownload ----
    html,              \* the exported document, a sequence of segments
    filename,
    exportPass,        \* the render pass whose closure built html (0: none)
    downloadUrls,      \* number of live URLs of exported blobs
    \* ---- pagination (useState / useEffect, page.tsx:155, 186-215) ----
    isLoadingMore,     \* committed React state
    pendingUpdate,     \* <<v>> for a queued setIsLoadingMore(v), or <<>>
    isLoading,         \* the isLoading prop as committed
    onScrollBottom,    \* identity of the onScrollBottom prop as committed
    messagesLength,    \* messages.length as committed
    scrollTop,         \* chatContainerRef.current.scrollTop
    listener,          \* <<b>>: a 'scroll' listener whose closure holds
                       \* isLoadingMore = b is registered; <<>>: none
    effectDeps,        \* dependencies of the effect that last ran
    effectPending,     \* the committed render scheduled the effect
    inflight,          \* unresolved onScrollBottom() calls
    syntheticStarts,   \* onScrollBottom() calls made by the effect itself
    scrollStarts,      \* onScrollBottom() calls made for a scroll event
    unhandledRejections

viewVars == <<userId, dialog, messages, mediaMap, participants, period,
              renderCount, crashed, filteredMessages, rows,
              lastRenderedDate, lastSenderId, objectUrls, html, filename,
              exportPass, downloadUrls>>

pagingVars == <<isLoadingMore, pendingUpdate, isLoading, onScrollBottom,
                messagesLength, scrollTop, listener, effectDeps,
                effectPending, inflight, syntheticStarts, scrollStarts,
                unhandledRejections>>

vars == <<viewVars, pagingVars>>

\* ------------------------------------------------------------- bounds
MaxLen == 3          \* messages in a transcript
MaxDate == 2         \* timestamps are 0..MaxDate
DayLen == 2          \* seconds in a (scaled) day
TzOffset == 1        \* local offset from UTC, scaled
MaxRenders == 2      \* render passes
MaxTextLen == 2      \* characters in an attacker-chosen text
MaxEscMsgs == 1      \* messages in the escaping scenario
MaxDownloads == 1    \* exported blobs awaiting cleanup
MaxCalls == 3        \* onScrollBottom() calls
MaxExtra == 1        \* messages beyond the initial batch
MaxScrollTop == 30   \* scrollHeight - clientHeight
ClientHeight == 10   \* height of the chat container

\* ---------------------------------------------------- program constants
INITIAL_MESSAGE_BATCH_SIZE == 20
BottomProximity == 20

\* ------------------------------------------------------ JS values
Undefined == "undefined"
Null == "null"

UnknownLabel == <<"U", "n", "k", "n", "o", "w", "n">>
AnonymousLabel == <<"A", "n", "o", "n", "y", "m", "o", "u", "s">>

NoMime == <<>>
NoMedia == [content |-> Undefined, type |-> Undefined, mimeType |-> NoMime]
MediaOf(content, type, mimeType) ==
    [content |-> content, type |-> type, mimeType |-> mimeType]

Msg(type, from, date, body, media) ==
    [id |-> 0, type |-> type, from |-> from, date |-> date,
     message |-> body, media |-> media]

\* ---------------------------------------------- formatDate / formatTime
formatDate(timestamp) == (timestamp + TzOffset) \div DayLen
formatTime(timestamp) == (timestamp + TzOffset) % DayLen

DateText(d) == <<"d", ToString(d)>>
TimeText(t) == <<"t", ToString(t)>>

\* ------------------------------------------------- transcript filter
\* a filter that forgot the unsupported-media rule
KeepMessage_ServiceOnly(msg) == msg.type # "service"

KeepMessage(msg) ==
    IF msg.type = "service" THEN FALSE
    ELSE IF msg.media.type = "unsupported" THEN FALSE
    ELSE TRUE

RECURSIVE FilterFrom(_, _)
FilterFrom(msgs, i) ==
    IF i > Len(msgs) THEN <<>>
    ELSE (IF KeepMessage(msgs[i]) THEN <<msgs[i]>> ELSE <<>>)
         \o FilterFrom(msgs, i + 1)

FilterMessages(msgs) == FilterFrom(msgs, 1)

\* ------------------------------------------------------ grouping pass
NullDate == <<>>           \* lastRenderedDate = null
NoUrl == <<>>              \* mediaUrl = undefined

Truthy(s) == s # Undefined /\ s # ""

HasParticipant(id) == id \in DOMAIN participants

\* participants[msg.from]?.name ?? 'Unknown', or 'Anonymous' (page.tsx:315, 239)
SenderName(msg) ==
    IF Truthy(msg.from)
    THEN (IF HasParticipant(msg.from) THEN participants[msg.from].name
          ELSE UnknownLabel)
    ELSE AnonymousLabel

\* participants[msg.from].photo reads a property of undefined when the
\* participant is missing: a TypeError (page.tsx:323)
ThumbThrows(msg) == Truthy(msg.from) /\ ~HasParticipant(msg.from)

ThumbSrc(msg) ==
    IF Truthy(msg.from) /\ HasParticipant(msg.from) /\ participants[msg.from].thumb
    THEN <<"thumb", msg.from>> ELSE <<>>

\* the accumulator kept across passes instead of being declared in the body
PassStartDate_CarriedOver == lastRenderedDate

\* the first value of lastRenderedDate / lastSenderId in a render pass
PassStartDate == NullDate
PassStartSender == Null

\* the running lastSenderId after a message (page.tsx:320)
NextLastSender(msg) == IF msg.from = Undefined THEN Null ELSE msg.from

\* page.tsx:319
ShowSenderHeader(isOutgoing, lastSender, msg) ==
    ~isOutgoing /\ lastSender # msg.from

\* page.tsx:311
ShowDate(lastDate, date) == lastDate # <<date>>

\* page.tsx:331-343: a blob URL when the bytes are in mediaMap
ResolvesMedia(msg) ==
    Truthy(msg.media.content) /\ msg.media.content \in mediaMap

RECURSIVE ProjectFrom(_, _, _, _, _, _)
ProjectFrom(msgs, i, pass, lastDate, lastSender, acc) ==
    IF i > Len(msgs)
    THEN [acc EXCEPT !.lastRenderedDate = lastDate, !.lastSenderId = lastSender]
    ELSE
      LET msg == msgs[i]
          date == formatDate(msg.date)
          showDate == ShowDate(lastDate, date)
          newLastDate == IF showDate THEN <<date>> ELSE lastDate
          isOutgoing == msg.from = userId
          showSenderHeader == ShowSenderHeader(isOutgoing, lastSender, msg)
          newLastSender == NextLastSender(msg)
      IN IF ThumbThrows(msg)
         THEN [acc EXCEPT !.threw = TRUE, !.lastRenderedDate = newLastDate,
                          !.lastSenderId = newLastSender]
         ELSE
           LET url == IF ResolvesMedia(msg) THEN <<pass, msg.id>> ELSE NoUrl
               row == [id |-> msg.id, date |-> date, showDate |-> showDate,
                       isOutgoing |-> isOutgoing, sender |-> SenderName(msg),
                       showSenderHeader |-> showSenderHeader,
                       thumbSrc |-> ThumbSrc(msg), mediaUrl |-> url]
           IN ProjectFrom(msgs, i + 1, pass, newLastDate, newLastSender,
                          [acc EXCEPT !.rows = Append(@, row),
                                      !.urls = IF url = NoUrl THEN @
                                               ELSE @ \cup {url}])

\* nothing is mapped while isLoading shows the spinner (page.tsx:292)
Project(msgs, pass) ==
    LET none == [rows |-> <<>>, urls |-> {}, threw |-> FALSE,
                 lastRenderedDate |-> PassStartDate,
                 lastSenderId |-> PassStartSender]
    IN IF isLoading THEN none
       ELSE ProjectFrom(msgs, 1, pass, PassStartDate, PassStartSender, none)

\* -------------------------------------------------------- escapeHtml
Amp == <<"&", "a", "m", "p", ";">>
Lt == <<"&", "l", "t", ";">>
Gt == <<"&", "g", "t", ";">>
Quot == <<"&", "q", "u", "o", "t", ";">>
Apos == <<"&", "#", "0", "3", "9", ";">>

\* String.prototype.replace with a /g pattern of one character
RECURSIVE ReplaceAll(_, _, _)
ReplaceAll(s, ch, rep) ==
    IF s = <<>> THEN <<>>
    ELSE (IF Head(s) = ch THEN rep ELSE <<Head(s)>>)
         \o ReplaceAll(Tail(s), ch, rep)

\* the ampersand replaced last: entities get escaped a second time
escapeHtml_AmpLast(unsafe) ==
    ReplaceAll(
      ReplaceAll(
        ReplaceAll(
          ReplaceAll(
            ReplaceAll(unsafe, "<", Lt),
            ">", Gt),
          "\"", Quot),
        "'", Apos),
      "&", Amp)

escapeHtml(unsafe) ==
    ReplaceAll(
      ReplaceAll(
        ReplaceAll(
          ReplaceAll(
            ReplaceAll(unsafe, "&", Amp),
            "<", Lt),
          ">", Gt),
        "\"", Quot),
      "'", Apos)

\* ---------------------------------------------------- handleDownload
Seg(src, id, text) == [src |-> src, msg |-> id, text |-> text]

\* what the template inserts for a user-controlled text
Insert(src, id, text) == Seg(src, id, escapeHtml(text))

BackupLabel == <<"B", "a", "c", "k", "u", "p">>
BackupFileLabel == <<"b", "a", "c", "k", "u", "p">>
AllTimeLabel == <<"a", "l", "l", "-", "t", "i", "m", "e">>
UnknownDateLabel == <<"u", "n", "k", "n", "o", "w", "n">>

\* page.tsx:229-230; 0 is falsy
FromDate == IF period[1] # 0 THEN DateText(formatDate(period[1])) ELSE AllTimeLabel
ToDate == IF period[2] # 0 THEN DateText(formatDate(period[2])) ELSE UnknownDateLabel

\* .replace(/\s+/g, '_'): each run of whitespace becomes one '_'
RECURSIVE CollapseWhitespace(_, _)
CollapseWhitespace(s, inRun) ==
    IF s = <<>> THEN <<>>
    ELSE IF Head(s) = " "
         THEN (IF inRun THEN <<>> ELSE <<"_">>) \o CollapseWhitespace(Tail(s), TRUE)
         ELSE <<Head(s)>> \o CollapseWhitespace(Tail(s), FALSE)

Filename ==
    CollapseWhitespace(
        (IF dialog.name # <<>> THEN dialog.name ELSE BackupFileLabel)
        \o <<"_">> \o FromDate \o <<"_", "t", "o", "_">> \o ToDate
        \o <<".", "h", "t", "m", "l">>, FALSE)

StartsWithImage(mimeType) == mimeType # NoMime /\ mimeType[1] = "image"
MimeText(mimeType) ==
    IF mimeType = NoMime THEN <<>> ELSE <<mimeType[1], "/", mimeType[2]>>

\* the photo branch left out
ExportMimeType_NoPhoto(media) ==
    IF media.type = "document" THEN media.mimeType ELSE NoMime

\* page.tsx:249-251
ExportMimeType(media) ==
    IF media.type = "photo" THEN <<"image", "jpeg">>
    ELSE IF media.type = "document" THEN media.mimeType
    ELSE NoMime

\* page.tsx:247: mediaMap[msg.media.content?.toString?.()] || null
ExportHasBytes(media) == media.content \in mediaMap

\* page.tsx:245-261
MediaSegs(msg) ==
    IF msg.media = NoMedia THEN <<>>
    ELSE IF ExportHasBytes(msg.media)
         THEN LET mimeType == ExportMimeType(msg.media)
              IN IF StartsWithImage(mimeType)
                 THEN <<Seg("img", msg.id,
                            <<"data:">> \o MimeText(mimeType)
                            \o <<";base64,", "btoa", msg.media.content>>)>>
                 ELSE <<Seg("notshown", msg.id,
                            <<"[">>
                            \o (IF mimeType # NoMime THEN MimeText(mimeType)
                                ELSE <<"media">>)
                            \o <<" not shown]">>)>>
         ELSE <<Seg("notloaded", msg.id, <<"[media not loaded]">>)>>

\* page.tsx:238-263, one message
MessageSegs(msg) ==
    <<Seg("lit", msg.id, <<"<div style='margin-bottom:1em;'>", "<div><b>">>),
      Insert("sender", msg.id, SenderName(msg)),
      Seg("stamp", msg.id,
          DateText(formatDate(msg.date)) \o <<" ">> \o TimeText(formatTime(msg.date)))>>
    \o (IF msg.message # <<>>
        THEN <<Insert("body", msg.id, msg.message)>> ELSE <<>>)
    \o MediaSegs(msg)
    \o <<Seg("lit", msg.id, <<"</div>">>)>>

RECURSIVE MessagesSegs(_, _)
MessagesSegs(msgs, i) ==
    IF i > Len(msgs) THEN <<>>
    ELSE MessageSegs(msgs[i]) \o MessagesSegs(msgs, i + 1)

\* page.tsx:234-264
DocumentSegs ==
    LET title == IF dialog.name # <<>> THEN dialog.name ELSE BackupLabel
    IN <<Seg("lit", 0, <<"<!DOCTYPE html>", "<title>">>),
         Insert("title", 0, title),
         Seg("lit", 0, <<"<h1>">>),
         Insert("title", 0, title),
         Seg("lit", 0, <<"<h3>Period: ">>),
         Insert("period", 0, FromDate),
         Insert("period", 0, ToDate),
         Seg("lit", 0, <<"<div>">>)>>
       \o MessagesSegs(filteredMessages, 1)
       \o <<Seg("lit", 0, <<"</div></body></html>">>)>>

\* ------------------------------------------------------- view actions
\* the records a provider update adds to the messages prop: none, or some
\* more at the end, numbered by their place in the transcript
Chunks(pool, room) == UNION {[1..k -> pool] : k \in 0..room}
Appended(chunk) ==
    messages \o [i \in 1..Len(chunk) |->
                    [chunk[i] EXCEPT !.id = Len(messages) + i]]

\* one call of the BackupDialog function with the props of the moment:
\* page.tsx:156-177 and 309-343
Render(pool, max) ==
    /\ ~crashed
    /\ renderCount < MaxRenders
    /\ \E chunk \in Chunks(pool, max - Len(messages)) :
         LET props == Appended(chunk)
             filtered == IF props = messages /\ renderCount > 0
                         THEN filteredMessages
                         ELSE FilterMessages(props)
             pass == Project(filtered, renderCount + 1)
         IN /\ messages' = props
            /\ filteredMessages' = filtered
            /\ crashed' = pass.threw
            /\ rows' = IF pass.threw THEN <<>> ELSE pass.rows
            /\ lastRenderedDate' = pass.lastRenderedDate
            /\ lastSenderId' = pass.lastSenderId
            /\ objectUrls' = objectUrls \cup pass.urls
    /\ renderCount' = renderCount + 1
    /\ UNCHANGED <<userId, dialog, mediaMap, participants, period,
                   html, filename, exportPass, downloadUrls>>
    /\ UNCHANGED pagingVars

\* the Download HTML button: page.tsx:218-272
HandleDownload ==
    /\ ~crashed
    /\ renderCount > 0
    /\ downloadUrls < MaxDownloads
    /\ html' = DocumentSegs
    /\ filename' = Filename
    /\ exportPass' = renderCount
    /\ downloadUrls' = downloadUrls + 1
    /\ UNCHANGED <<userId, dialog, messages, mediaMap, participants, period,
                   renderCount, crashed, filteredMessages, rows,
                   lastRenderedDate, lastSenderId, objectUrls>>
    /\ UNCHANGED pagingVars

\* the setTimeout callback: page.tsx:273-276
DownloadCleanup ==
    /\ downloadUrls > 0
    /\ downloadUrls' = downloadUrls - 1
    /\ UNCHANGED <<userId, dialog, messages, mediaMap, participants, period,
                   renderCount, crashed, filteredMessages, rows,
                   lastRenderedDate, lastSenderId, objectUrls, html, filename,
                   exportPass>>
    /\ UNCHANGED pagingVars

\* ------------------------------------------------------ initial states
PagingIdle ==
    /\ isLoadingMore = FALSE
    /\ pendingUpdate = <<>>
    /\ isLoading = FALSE
    /\ onScrollBottom = 0
    /\ messagesLength = 0
    /\ scrollTop = 0
    /\ listener = <<>>
    /\ effectDeps = <<>>
    /\ effectPending = FALSE
    /\ inflight = 0
    /\ syntheticStarts = 0
    /\ scrollStarts = 0
    /\ unhandledRejections = 0

Participant(name, thumb) == [name |-> name, thumb |-> thumb]

Profile(name, people) == [name |-> name, participants |-> people]

ViewBefore(userIds, profiles, mediaMaps, periods) ==
    /\ userId \in userIds
    /\ \E p \in profiles :
         /\ dialog = [name |-> p.name]
         /\ participants = p.participants
    /\ mediaMap \in mediaMaps
    /\ period \in periods
    /\ messages = <<>>
    /\ renderCount = 0
    /\ crashed = FALSE
    /\ filteredMessages = <<>>
    /\ rows = <<>>
    /\ lastRenderedDate = NullDate
    /\ lastSenderId = Null
    /\ objectUrls = {}
    /\ html = <<>>
    /\ filename = <<>>
    /\ exportPass = 0
    /\ downloadUrls = 0

InitView(userIds, profiles, mediaMaps, periods) ==
    /\ ViewBefore(userIds, profiles, mediaMaps, periods)
    /\ PagingIdle

\* the dialog on screen
NextView(pool, max) == Render(pool, max)

\* the dialog on screen, with its Download HTML button
NextExport(pool, max) ==
    \/ Render(pool, max)
    \/ HandleDownload
    \/ DownloadCleanup

\* ------------------------------------------- scenario: transcript filter
PlainName == <<"a">>
Everyone == [id \in {"A", "B"} |-> Participant(PlainName, id = "A")]

FilterPool ==
    {Msg("service", Undefined, 0, <<>>, NoMedia),
     Msg("message", "A", 0, <<"a">>, NoMedia),
     Msg("message", "A", 0, <<>>, MediaOf("c1", "photo", NoMime)),
     Msg("message", "A", 0, <<>>, MediaOf("c1", "document", <<"image", "png">>)),
     Msg("message", "A", 0, <<>>, MediaOf("c1", "unsupported", NoMime))}

InitFilter ==
    InitView({""}, {Profile(PlainName, Everyone)}, {{"c1"}}, {<<0, 0>>})
NextFilter == NextView(FilterPool, MaxLen)
SpecFilter == InitFilter /\ [][NextFilter]_vars

\* ------------------------------------ scenario: dates and senders
OnlyA == [id \in {"A"} |-> Participant(PlainName, TRUE)]

GroupPool ==
    {Msg("message", f, d, <<"a">>, NoMedia) :
        f \in {"A", "B", Undefined}, d \in {0, MaxDate}}

DatePool ==
    {Msg("message", f, d, <<"a">>, NoMedia) :
        f \in {"A", Undefined}, d \in 0..MaxDate}

InitDates ==
    InitView({""}, {Profile(PlainName, Everyone)}, {{}}, {<<0, 0>>})
NextDates == NextView(DatePool, MaxLen)
SpecDates == InitDates /\ [][NextDates]_vars

InitGroup ==
    InitView({"", "A"},
             {Profile(PlainName, Everyone), Profile(PlainName, OnlyA)},
             {{}}, {<<0, 0>>})
NextGroup == NextView(GroupPool, MaxLen)
SpecGroup == InitGroup /\ [][NextGroup]_vars

\* ----------------------------------------------- scenario: media
SpacedName == <<"m", "y", " ", " ", "c">>

\* "c1" has its bytes in mediaMap, "c2" has not
MediaPool ==
    {Msg("message", "A", 0, <<>>, m) :
        m \in {NoMedia,
               MediaOf("c1", "photo", NoMime),
               MediaOf("c2", "photo", NoMime),
               MediaOf("c1", "document", <<"image", "png">>),
               MediaOf("c1", "document", <<"application", "pdf">>),
               MediaOf("c1", "document", NoMime),
               MediaOf(Undefined, "geo", NoMime)}}

InitMedia ==
    InitView({""}, {Profile(SpacedName, Everyone)}, {{"c1"}}, {<<0, 1>>})
NextMedia == NextExport(MediaPool, MaxLen)
SpecMedia == InitMedia /\ [][NextMedia]_vars

\* ------------------------------------- scenario: hostile texts
Alphabet == {"&", "<", ">", "\"", "'", "a"}
Texts == UNION {[1..n -> Alphabet] : n \in 0..MaxTextLen}

\* the same text as dialog title, as display name and as message body
EscapePool ==
    {Msg("message", f, 0, b, NoMedia) :
        f \in {"A", Undefined}, b \in {dialog.name, <<>>}}

InitEscape ==
    InitView({""},
             {Profile(t, [id \in {"A"} |-> Participant(t, FALSE)]) : t \in Texts},
             {{}}, {<<0, 0>>})
NextEscape == NextExport(EscapePool, MaxEscMsgs)
SpecEscape == InitEscape /\ [][NextEscape]_vars

\* -------------------------------------------------------- pagination
NoListener == <<>>
NoUpdate == <<>>

ScrollHeight == ClientHeight + MaxScrollTop

\* page.tsx:191
ScrolledToBottom(top) == top + ClientHeight >= ScrollHeight - BottomProximity

\* handleScroll up to its await, in a closure that holds isLoadingMore = held:
\* whether it calls setIsLoadingMore(true) and onScrollBottom() (page.tsx:188-195)
StartsFetch(held, top) == ~isLoading /\ ~held /\ ScrolledToBottom(top)

Deps(fn, loading, len) == <<fn, loading, len>>

Calls == syntheticStarts + scrollStarts

\* where the user can scroll to: the top, either side of the proximity
\* threshold, the end
ScrollPositions ==
    {0, MaxScrollTop - BottomProximity - 1, MaxScrollTop - BottomProximity,
     MaxScrollTop}

\* the browser delivers a 'scroll' event to the container
ScrollEvent ==
    /\ ~isLoading
    /\ Calls < MaxCalls
    /\ \E pos \in ScrollPositions \ {scrollTop} :
         /\ scrollTop' = pos
         /\ IF listener # NoListener /\ StartsFetch(listener[1], pos)
            THEN /\ pendingUpdate' = <<TRUE>>
                 /\ inflight' = inflight + 1
                 /\ scrollStarts' = scrollStarts + 1
            ELSE UNCHANGED <<pendingUpdate, inflight, scrollStarts>>
    /\ UNCHANGED <<isLoadingMore, isLoading, onScrollBottom, messagesLength,
                   listener, effectDeps, effectPending, syntheticStarts,
                   unhandledRejections>>
    /\ UNCHANGED viewVars

\* React renders BackupDialog for its own queued state update and commits
StateCommit ==
    /\ pendingUpdate # NoUpdate
    /\ ~effectPending
    /\ isLoadingMore' = pendingUpdate[1]
    /\ pendingUpdate' = NoUpdate
    /\ effectPending' =
         (Deps(onScrollBottom, pendingUpdate[1], messagesLength) # effectDeps)
    /\ UNCHANGED <<isLoading, onScrollBottom, messagesLength, scrollTop,
                   listener, effectDeps, inflight, syntheticStarts,
                   scrollStarts, unhandledRejections>>
    /\ UNCHANGED viewVars

\* Page renders: BackupDialog gets a new onScrollBottom (page.tsx:440, 468),
\* maybe more messages, maybe another isLoading; queued state is applied too
ParentRender ==
    /\ ~effectPending
    /\ \E len \in {messagesLength, messagesLength + 1}, loading \in BOOLEAN :
         /\ len <= INITIAL_MESSAGE_BATCH_SIZE + MaxExtra
         /\ messagesLength' = len
         /\ isLoading' = loading
         /\ IF loading # isLoading
            THEN listener' = NoListener /\ scrollTop' = 0
            ELSE UNCHANGED <<listener, scrollTop>>
    /\ onScrollBottom' = 1 - onScrollBottom
    /\ isLoadingMore' = IF pendingUpdate # NoUpdate THEN pendingUpdate[1]
                        ELSE isLoadingMore
    /\ pendingUpdate' = NoUpdate
    /\ effectPending' = TRUE
    /\ UNCHANGED <<effectDeps, inflight, syntheticStarts, scrollStarts,
                   unhandledRejections>>
    /\ UNCHANGED viewVars

\* the effect of page.tsx:186-215 runs: the old listener is removed, a new
\* one is added, and handleScroll() is called when the batch is full
FlushEffects ==
    /\ effectPending
    /\ Calls < MaxCalls
    /\ effectPending' = FALSE
    /\ effectDeps' = Deps(onScrollBottom, isLoadingMore, messagesLength)
    /\ listener' = IF isLoading THEN NoListener ELSE <<isLoadingMore>>
    /\ IF /\ ~isLoading
          /\ messagesLength >= INITIAL_MESSAGE_BATCH_SIZE
          /\ StartsFetch(isLoadingMore, scrollTop)
       THEN /\ pendingUpdate' = <<TRUE>>
            /\ inflight' = inflight + 1
            /\ syntheticStarts' = syntheticStarts + 1
       ELSE UNCHANGED <<pendingUpdate, inflight, syntheticStarts>>
    /\ UNCHANGED <<isLoadingMore, isLoading, onScrollBottom, messagesLength,
                   scrollTop, scrollStarts, unhandledRejections>>
    /\ UNCHANGED viewVars

\* an onScrollBottom() promise resolves: handleScroll goes on after its
\* await (page.tsx:196)
FetchResolve ==
    /\ inflight > 0
    /\ inflight' = inflight - 1
    /\ pendingUpdate' = <<FALSE>>
    /\ UNCHANGED <<isLoadingMore, isLoading, onScrollBottom, messagesLength,
                   scrollTop, listener, effectDeps, effectPending,
                   syntheticStarts, scrollStarts, unhandledRejections>>
    /\ UNCHANGED viewVars

\* an onScrollBottom() promise rejects: the await throws, nothing catches it,
\* the rest of handleScroll is skipped (page.tsx:195)
FetchReject ==
    /\ inflight > 0
    /\ inflight' = inflight - 1
    /\ unhandledRejections' = unhandledRejections + 1
    /\ UNCHANGED <<isLoadingMore, pendingUpdate, isLoading, onScrollBottom,
                   messagesLength, scrollTop, listener, effectDeps,
                   effectPending, syntheticStarts, scrollStarts>>
    /\ UNCHANGED viewVars

\* the dialog just mounted: rendered once, its effect not yet run
InitPaging ==
    /\ ViewBefore({""}, {Profile(PlainName, Everyone)}, {{}}, {<<0, 0>>})
    /\ isLoadingMore = FALSE
    /\ pendingUpdate = NoUpdate
    /\ isLoading \in BOOLEAN
    /\ onScrollBottom = 0
    /\ messagesLength \in {INITIAL_MESSAGE_BATCH_SIZE - 1,
                           INITIAL_MESSAGE_BATCH_SIZE}
    /\ scrollTop = 0
    /\ listener = NoListener
    /\ effectDeps = <<>>
    /\ effectPending = TRUE
    /\ inflight = 0
    /\ syntheticStarts = 0
    /\ scrollStarts = 0
    /\ unhandledRejections = 0

NextPaging ==
    \/ ScrollEvent
    \/ StateCommit
    \/ ParentRender
    \/ FlushEffects
    \/ FetchResolve
    \/ FetchReject

SpecPaging == InitPaging /\ [][NextPaging]_vars

\* =================================================================
\*                             claims
\* =================================================================

\* C7: the transcript filter returns exactly the messages that are neither
\* service messages nor unsupported media, unmodified and in their input
\* order, and filtering its result again changes nothing.
C7_Kept(msg) == msg.type # "service" /\ msg.media.type # "unsupported"
C7_FilterExact ==
    renderCount > 0 =>
      /\ \A i \in DOMAIN filteredMessages :
           /\ C7_Kept(filteredMessages[i])
           /\ filteredMessages[i].id \in DOMAIN messages
           /\ filteredMessages[i] = messages[filteredMessages[i].id]
      /\ \A i, j \in DOMAIN filteredMessages :
           i < j => filteredMessages[i].id < filteredMessages[j].id
      /\ \A k \in DOMAIN messages :
           C7_Kept(messages[k]) =>
             \E i \in DOMAIN filteredMessages : filteredMessages[i].id = k
      /\ FilterMessages(filteredMessages) = filteredMessages

C7_Witness ==
    /\ renderCount > 0
    /\ renderCount = 2
    /\ Len(messages) = 3
    /\ messages[1].media.type = "unsupported"
    /\ messages[2].type = "message" /\ messages[2].media.type = "photo"
    /\ messages[3].type = "service"
    /\ Len(filteredMessages) = 1

\* C4: in every render pass a date separator is shown exactly for the first
\* visible message and for each message whose calendar date differs from
\* that of the visible message before it.
C4_DateSeparatorRule ==
    \A i \in DOMAIN rows :
        rows[i].showDate <=>
          (i = 1 \/ formatDate(filteredMessages[i].date)
                      # formatDate(filteredMessages[i - 1].date))

C4_Witness ==
    /\ renderCount = 2
    /\ Len(rows) = 3
    /\ rows[1].showDate /\ ~rows[2].showDate /\ rows[3].showDate

\* C3: a sender header is shown exactly for an incoming message whose sender
\* differs from the sender of the visible message before it, an absent sender
\* counting as a sender like any other.
C3_SenderHeaderRule ==
    \A i \in DOMAIN rows :
        rows[i].showSenderHeader <=>
          /\ filteredMessages[i].from # userId
          /\ (i = 1 \/ filteredMessages[i].from # filteredMessages[i - 1].from)

\* C5: a message whose sender has no participant entry never makes a render
\* pass throw; it is shown as "Unknown", and one with no sender as "Anonymous".
C5_MissingDataDegrades ==
    /\ ~crashed
    /\ \A i \in DOMAIN rows :
         LET from == filteredMessages[i].from
         IN /\ (from # Undefined /\ from \notin DOMAIN participants)
                 => (rows[i].sender = UnknownLabel /\ rows[i].thumbSrc = <<>>)
            /\ from = Undefined => rows[i].sender = AnonymousLabel

\* C10: every live media URL belongs to a message of the current render
\* pass, so there are never more live URLs than rendered media messages.
C10_HandlesReleased ==
    /\ \A u \in objectUrls :
         u[1] = renderCount /\ \E i \in DOMAIN rows : rows[i].mediaUrl = u
    /\ Cardinality(objectUrls)
         <= Cardinality({i \in DOMAIN rows : rows[i].mediaUrl # NoUrl})

\* C8: the export emits for a message with media exactly one of: an <img>
\* with a data:<mime>;base64 source (bytes present, image MIME type), the
\* placeholder "[<type> not shown]" (bytes present, other MIME type), the
\* placeholder "[media not loaded]" (no bytes); and nothing without media.
C8_MediaSrcs == {"img", "notshown", "notloaded"}
C8_Mime(media) ==
    CASE media.type = "photo" -> <<"image", "jpeg">>
      [] media.type = "document" -> media.mimeType
      [] OTHER -> NoMime
C8_Out(id) ==
    {j \in DOMAIN html : html[j].msg = id /\ html[j].src \in C8_MediaSrcs}
C6_Entity(c) ==
    CASE c = "&" -> Amp
      [] c = "<" -> Lt
      [] c = ">" -> Gt
      [] c = "\"" -> Quot
      [] c = "'" -> Apos
      [] OTHER -> <<c>>
RECURSIVE C6_Escaped(_)
C6_Escaped(raw) ==
    IF raw = <<>> THEN <<>> ELSE C6_Entity(Head(raw)) \o C6_Escaped(Tail(raw))
C6_Raw(seg) ==
    CASE seg.src = "title" -> (IF dialog.name # <<>> THEN dialog.name ELSE BackupLabel)
      [] seg.src = "sender" -> SenderName(messages[seg.msg])
      [] seg.src = "body" -> messages[seg.msg].message
C6_UserSrcs == {"title", "sender", "body"}
C6_ExportEscaped ==
    /\ \A j \in DOMAIN html :
         html[j].src \in C6_UserSrcs =>
           /\ html[j].text = C6_Escaped(C6_Raw(html[j]))
           /\ \A k \in DOMAIN html[j].text :
                html[j].text[k] \notin {"<", ">", "\"", "'"}
    /\ (exportPass > 0 /\ exportPass = renderCount) =>
         /\ \E j \in DOMAIN html : html[j].src = "title"
         /\ \A i \in DOMAIN filteredMessages :
              /\ \E j \in DOMAIN html :
                   html[j].src = "sender" /\ html[j].msg = filteredMessages[i].id
              /\ filteredMessages[i].message # <<>> =>
                   \E j \in DOMAIN html :
                     html[j].src = "body" /\ html[j].msg = filteredMessages[i].id

C6_Witness ==
    \E j \in DOMAIN html :
        /\ html[j].src = "body"
        /\ messages[html[j].msg].message = <<"<", "&">>
        /\ html[j].text = Lt \o Amp

\* C1: there are never two unresolved onScrollBottom() calls, whatever the
\* order of scroll events, re-renders, effect runs and completions.
C1_SingleFlight == inflight <= 1

\* C2: once no onScrollBottom() call is unresolved and no state update is
\* queued, the controller is Idle, and no failure escaped as an exception.
C2_ReturnsToIdle ==
    /\ (inflight = 0 /\ pendingUpdate = NoUpdate) => ~isLoadingMore
    /\ unhandledRejections = 0

\* C9: the effect's own handleScroll() starts at most one fetch; every other
\* fetch is started by a scroll event.
C9_SyntheticOnce == syntheticStarts <= 1

====
